---- MODULE Spec2Model ----
(***************************************************************************)
(* Waitlist client of hydrogen-restock: the useWaitlist hook (join, leave, *)
(* reset), the useWaitlistCount hook (fetchCount, refetch, the module-wide *)
(* countCache) and the validation helpers they call.                       *)
(*                                                                         *)
(* A JavaScript string is a sequence of one-character strings.  An         *)
(* optional value (string | undefined) is Undefined == <<>> or Some(v) ==  *)
(* <<v>>.  A pending async call is a record that remembers where the call  *)
(* is suspended: at `await fetch(...)` (pc = "fetch") or at                *)
(* `await res.json()` (pc = "json").                                       *)
(***************************************************************************)
EXTENDS Integers, Sequences, FiniteSets, Bags, TLC

\* ------------------------------------------------------------------ bounds
\* Calls of one hook instance that may be suspended at the same time.
MaxPending == 2
\* Network requests issued in one run (the counter `requests` stops here).
MaxRequests == 2

\* One step of the clock, in milliseconds, and the last instant of a run.
TickMs == 30000

MaxNow == 60000

\* --------------------------------------------------------- optional values
Undefined == <<>>

Some(v) == <<v>>

\* a ?? b
Coalesce(opt, default) == IF opt = Undefined THEN default ELSE opt[1]

\* ------------------------------------------------------------- validation
\* A string is a sequence of characters. The values of another type that a
\* caller without type checking can pass are one-element sequences holding a
\* token that is no character: null, the numbers 0 and 42, an object.
JsNull == <<"null">>

JsZero == <<"number 0">>

JsNumber == <<"number 42">>

JsObject == <<"object">>

NonStrings == {JsNull, JsZero, JsNumber, JsObject}

\* typeof v === 'string'
IsString(v) == v \notin NonStrings

\* !v: the empty string (and undefined, which has the same representation),
\* null and 0
Falsy(v) == v \in {<<>>, JsNull, JsZero}

\* \s of the regular expressions and of String.prototype.trim
Whitespace == {" ", "\t", "\n"}

RECURSIVE trimStart(_)
trimStart(s) ==
  IF s # <<>> /\ Head(s) \in Whitespace THEN trimStart(Tail(s)) ELSE s

RECURSIVE trimEnd(_)
trimEnd(s) ==
  IF s # <<>> /\ s[Len(s)] \in Whitespace
  THEN trimEnd(SubSeq(s, 1, Len(s) - 1))
  ELSE s

\* String.prototype.trim
trim(s) == trimEnd(trimStart(s))

\* String.prototype.toLowerCase, on the letters the inputs use
toLowerChar(c) ==
  CASE c = "A" -> "a"
    [] c = "B" -> "b"
    [] c = "C" -> "c"
    [] OTHER -> c

toLowerCase(s) == [i \in 1..Len(s) |-> toLowerChar(s[i])]

\* s.slice(0, n)
slice0(s, n) == SubSeq(s, 1, IF Len(s) < n THEN Len(s) ELSE n)

\* s.replace(/[<>]/g, '')
stripAngles(s) == SelectSeq(s, LAMBDA c : c \notin {"<", ">"})

\* .slice(0, 500): the length limit of sanitizeInput
MaxInputLength == 500

\* faulty variant: the length limit is applied before the brackets are removed
sanitizeInputCutsFirst(input) ==
  IF Falsy(input) \/ ~IsString(input) THEN <<>>
  ELSE stripAngles(slice0(trim(input), MaxInputLength))

\* if (!input || typeof input !== 'string') return ''
sanitizeInput(input) ==
  IF Falsy(input) \/ ~IsString(input) THEN <<>>
  ELSE slice0(stripAngles(trim(input)), MaxInputLength)

\* faulty variant: [^@]+ instead of [^\s@]+, whitespace passes
IsLocalRunWithBlanks(s, a, b) ==
  /\ a <= b
  /\ \A k \in a..b : s[k] # "@"

\* [^\s@]+ matches exactly s[a..b]
IsLocalRun(s, a, b) ==
  /\ a <= b
  /\ \A k \in a..b : s[k] \notin Whitespace /\ s[k] # "@"

\* /^[^\s@]+@[^\s@]+\.[^\s@]+$/.test(t)
emailRegexTest(t) ==
  \E i \in 1..Len(t) : \E j \in 1..Len(t) :
    /\ i < j
    /\ t[i] = "@"
    /\ t[j] = "."
    /\ IsLocalRun(t, 1, i - 1)
    /\ IsLocalRun(t, i + 1, j - 1)
    /\ IsLocalRun(t, j + 1, Len(t))

\* if (!email || typeof email !== 'string') return false
isValidEmail(email) ==
  IF Falsy(email) \/ ~IsString(email) THEN FALSE
  ELSE emailRegexTest(trim(email))

Digits == {"0", "1", "2", "3", "4", "5", "6", "7", "8", "9"}

\* the positions where /\/(\d+)$/ matches
NumericSuffixStarts(gid) ==
  { i \in 1..Len(gid) :
      /\ gid[i] = "/"
      /\ i < Len(gid)
      /\ \A k \in (i + 1)..Len(gid) : gid[k] \in Digits }

\* faulty variant: match?.[1] ?? '', nothing comes back when nothing matches
extractNumericIdOrEmpty(gid) ==
  IF Falsy(gid) THEN <<>>
  ELSE IF NumericSuffixStarts(gid) = {} THEN <<>>
  ELSE LET i == CHOOSE i \in NumericSuffixStarts(gid) : TRUE
       IN SubSeq(gid, i + 1, Len(gid))

\* if (!gid) return ''; gid.match(/\/(\d+)$/)?.[1] ?? gid
extractNumericId(gid) ==
  IF Falsy(gid) THEN <<>>
  ELSE IF NumericSuffixStarts(gid) = {} THEN gid
  ELSE LET i == CHOOSE i \in NumericSuffixStarts(gid) : TRUE
       IN SubSeq(gid, i + 1, Len(gid))

\* "gid://shopify/"
ShopifyGid ==
  <<"g", "i", "d", ":", "/", "/", "s", "h", "o", "p", "i", "f", "y", "/">>

\* "gid://shopify/ProductVariant/"
VariantGid ==
  ShopifyGid \o <<"P", "r", "o", "d", "u", "c", "t", "V", "a", "r", "i", "a",
                  "n", "t", "/">>

\* "gid://shopify/Product/"
ProductGid == ShopifyGid \o <<"P", "r", "o", "d", "u", "c", "t", "/">>

\* /^\d+$/.test(s)
numericRegexTest(s) == s # <<>> /\ \A k \in 1..Len(s) : s[k] \in Digits

\* faulty variant: the GID pattern without its ^ anchor
gidRegexTestUnanchored(prefix, s) ==
  \E from \in 1..Len(s) :
    /\ Len(s) - from + 1 > Len(prefix)
    /\ SubSeq(s, from, from + Len(prefix) - 1) = prefix
    /\ numericRegexTest(SubSeq(s, from + Len(prefix), Len(s)))

\* /^<prefix>\d+$/.test(s)
gidRegexTest(prefix, s) ==
  /\ Len(s) > Len(prefix)
  /\ SubSeq(s, 1, Len(prefix)) = prefix
  /\ numericRegexTest(SubSeq(s, Len(prefix) + 1, Len(s)))

isValidVariantId(variantId) ==
  IF Falsy(variantId) \/ ~IsString(variantId) THEN FALSE
  ELSE gidRegexTest(VariantGid, variantId) \/ numericRegexTest(variantId)

isValidProductId(productId) ==
  IF Falsy(productId) \/ ~IsString(productId) THEN FALSE
  ELSE gidRegexTest(ProductGid, productId) \/ numericRegexTest(productId)

\* ---------------------------------------------------------------- messages
InvalidEmailMsg == "Please enter a valid email address."

NetworkMsg == "Network error. Please try again."

RateLimitedMsg == "Too many requests. Please try again later."

UnknownMsg == "An unexpected error occurred."

JoinedMsg == "You've been added to the waitlist. We'll email you when it's back in stock."

LeftMsg == "You've been removed from the waitlist."

\* ------------------------------------------------------------------ state
VARIABLES
  hook,            \* which part of the package is exercised: a hook, or the utilities
  email,           \* useWaitlist: useState('')
  isJoining,       \* useWaitlist: useState(false)
  isLeaving,       \* useWaitlist: useState(false)
  isJoined,        \* useWaitlist: useState(false)
  error,           \* useWaitlist: useState<string | undefined>()
  successMessage,  \* useWaitlist: useState<string | undefined>()
  inflight,        \* useWaitlist: the join/leave calls suspended at an await
  countCache,      \* the module-wide Map of useWaitlistCount
  countHook,       \* useWaitlistCount, per instance: variantId and the useState cells
  fetches,         \* useWaitlistCount: the fetchCount calls suspended at an await
  now,             \* Date.now()
  requests,        \* calls made to the transport (fetch) so far
  event,           \* what the last step was
  returned,        \* the value the last step returned, or its promise resolved to
  callback         \* the option callback the last step invoked, with its argument

waitVars == <<email, isJoining, isLeaving, isJoined, error, successMessage>>

outVars == <<event, returned, callback>>

countVars == <<countCache, countHook, fetches, now>>

vars == <<hook, waitVars, inflight, countVars, requests, outVars>>

\* ----------------------------------------------------------------- inputs
\* emailInput values handed to join and leave
EmailInputs ==
  { <<"a", "@", "b", ".", "c">>,
    <<" ", "A", "@", "b", ".", "c", " ">>,
    <<"<", " ", "a", "@", "b", ".", "c", ">">>,
    <<"a", "@", "b">>,
    <<"a", " ", "@", "b", ".", "c">>,
    <<>> }

\* values typed into the email field (setEmail)
TypedEmails ==
  { <<"a", "@", "b", ".", "c">>,
    <<"a", "@", "b">> }

\* res.status of a response of the join or leave endpoint
WaitlistStatuses == {200, 429, 500}

\* res.ok
IsOk(status) == status \in 200..299

\* JSON bodies of the type JoinWaitlistResponse / LeaveWaitlistResponse
Bodies ==
  [ success : BOOLEAN,
    message : {Undefined, Some("ok")},
    error : {Undefined, Some("Already on the waitlist")} ]

\* { success: false, error: errorMsg }
Failure(errorMsg) ==
  [success |-> FALSE, message |-> Undefined, error |-> Some(errorMsg)]

\* onJoinError?.(errorMsg), onLeaveError?.(errorMsg)
OnError(name, errorMsg) ==
  Some([name |-> name, error |-> Some(errorMsg), response |-> Undefined])

\* onJoinSuccess?.(result), onLeaveSuccess?.(result)
OnSuccess(name, result) ==
  Some([name |-> name, error |-> Undefined, response |-> Some(result)])

\* A step: its kind (name), the operation it belongs to, the code path taken,
\* the state of the promise the operation returned, whether the step called
\* fetch (sent), what the step was given (input: the argument of a call, the
\* res.status of a response, the parsed body, the value thrown), for
\* useWaitlistCount the instance, and for a step that settles a join or leave
\* call whether reset() was called while that call was pending (stale) and
\* whether, with no reset(), the flag of its operation was down already: a
\* call of the same operation that overlapped it settled first (late), and
\* for a step that sends a join or leave request the email of its body.
CEv(name, op, path, promise, sent, input, inst) ==
  [name |-> name, op |-> op, path |-> path, promise |-> promise,
   sent |-> sent, input |-> input, inst |-> inst, stale |-> FALSE,
   late |-> FALSE, request |-> Undefined]

\* the inputs of a step, by kind
Arg(v) == [kind |-> "arg", arg |-> v, status |-> 0, body |-> Undefined]

Status(n) == [kind |-> "status", arg |-> Undefined, status |-> n, body |-> Undefined]

Body(b) == [kind |-> "body", arg |-> Undefined, status |-> 0, body |-> Some(b)]

Threw(e) == [kind |-> "thrown", arg |-> Undefined, status |-> 0, body |-> Some(e)]

NoInput == [kind |-> "none", arg |-> Undefined, status |-> 0, body |-> Undefined]

Ev(name, op, path, promise, sent, input) ==
  CEv(name, op, path, promise, sent, input, "none")

\* the pending calls are a bag: two calls may be suspended in the same place
AddCall(bag, call) == bag (+) SetToBag({call})

RemoveCall(bag, call) == bag (-) SetToBag({call})

\* ------------------------------------------------------ useWaitlist: join
\* the validation gate of join: no request is made
joinInvalid(emailInput) ==
  /\ error' = Some(InvalidEmailMsg)
  /\ callback' = OnError("onJoinError", InvalidEmailMsg)
  /\ returned' = Some(Failure(InvalidEmailMsg))
  /\ event' = Ev("call", "join", "invalidEmail", "resolved", FALSE,
                Arg(emailInput))
  /\ UNCHANGED <<email, isJoining, isLeaving, isJoined, successMessage>>
  /\ UNCHANGED <<inflight, requests>>

\* the flags set before the request, and the request itself
joinSend(emailInput, cleanEmail) ==
  /\ BagCardinality(inflight) < MaxPending
  /\ requests < MaxRequests
  /\ isJoining' = TRUE
  /\ error' = Undefined
  /\ successMessage' = Undefined
  /\ inflight' = AddCall(inflight,
       [op |-> "join", pc |-> "fetch", ok |-> FALSE, stale |-> FALSE])
  /\ requests' = requests + 1
  /\ event' = [Ev("call", "join", "sent", "pending", TRUE, Arg(emailInput))
                EXCEPT !.request = Some(cleanEmail)]
  /\ returned' = Undefined
  /\ callback' = Undefined
  /\ UNCHANGED <<email, isLeaving, isJoined>>

\* faulty variant: join without its validation gate
joinWithoutGate(emailInput) ==
  joinSend(emailInput, toLowerCase(sanitizeInput(emailInput)))

join(emailInput) ==
  LET cleanEmail == toLowerCase(sanitizeInput(emailInput)) IN
  IF ~isValidEmail(cleanEmail)
  THEN joinInvalid(emailInput)
  ELSE joinSend(emailInput, cleanEmail)

\* faulty variant: the finally block of join is missing
joinFinallyFlagKept(call) ==
  /\ isJoining' = isJoining
  /\ inflight' = RemoveCall(inflight, call)

\* finally { setIsJoining(false) }, and the call is over
joinFinally(call) ==
  /\ isJoining' = FALSE
  /\ inflight' = RemoveCall(inflight, call)

\* faulty variant: join sends the request again when it is rate limited
joinRateLimitedRetries(call, status) ==
  /\ requests < MaxRequests
  /\ requests' = requests + 1
  /\ event' = Ev("response", "join", "rateLimited", "pending", TRUE,
                Status(status))
  /\ returned' = Undefined
  /\ callback' = Undefined
  /\ UNCHANGED <<waitVars, inflight>>

\* if (res.status === 429) { ... }
joinRateLimited(call, status) ==
  /\ error' = Some(RateLimitedMsg)
  /\ callback' = OnError("onJoinError", RateLimitedMsg)
  /\ returned' = Some(Failure(RateLimitedMsg))
  /\ event' = [Ev("settle", "join", "rateLimited", "resolved", FALSE,
                Status(status))
                EXCEPT !.stale = call.stale,
                       !.late = ~call.stale /\ ~isJoining]
  /\ joinFinally(call)
  /\ UNCHANGED <<email, isLeaving, isJoined, successMessage, requests>>

\* fetch resolved with another status: the call goes on to await res.json()
joinAwaitJson(call, status) ==
  /\ inflight' = AddCall(RemoveCall(inflight, call),
       [call EXCEPT !.pc = "json", !.ok = IsOk(status)])
  /\ event' = Ev("response", "join", "awaitJson", "pending", FALSE,
                Status(status))
  /\ returned' = Undefined
  /\ callback' = Undefined
  /\ UNCHANGED <<waitVars, requests>>

\* faulty variant: join marks the instance joined before looking at the result
joinAppErrorMarksJoined(call, result) ==
  LET errorMsg == Coalesce(result.error, UnknownMsg) IN
  /\ isJoined' = TRUE
  /\ error' = Some(errorMsg)
  /\ callback' = OnError("onJoinError", errorMsg)
  /\ returned' = Some(result)
  /\ event' = [Ev("settle", "join", "appError", "resolved", FALSE,
                Body(result))
                EXCEPT !.stale = call.stale,
                       !.late = ~call.stale /\ ~isJoining]
  /\ joinFinally(call)
  /\ UNCHANGED <<email, isLeaving, successMessage, requests>>

\* faulty variant: join builds a failure result instead of returning the body
joinAppErrorBuildsFailure(call, result) ==
  LET errorMsg == Coalesce(result.error, UnknownMsg) IN
  /\ error' = Some(errorMsg)
  /\ callback' = OnError("onJoinError", errorMsg)
  /\ returned' = Some(Failure(errorMsg))
  /\ event' = [Ev("settle", "join", "appError", "resolved", FALSE,
                Body(result))
                EXCEPT !.stale = call.stale,
                       !.late = ~call.stale /\ ~isJoining]
  /\ joinFinally(call)
  /\ UNCHANGED <<email, isLeaving, isJoined, successMessage, requests>>

\* if (!res.ok || !result.success) { ... return result; }
joinAppError(call, result) ==
  LET errorMsg == Coalesce(result.error, UnknownMsg) IN
  /\ error' = Some(errorMsg)
  /\ callback' = OnError("onJoinError", errorMsg)
  /\ returned' = Some(result)
  /\ event' = [Ev("settle", "join", "appError", "resolved", FALSE,
                Body(result))
                EXCEPT !.stale = call.stale,
                       !.late = ~call.stale /\ ~isJoining]
  /\ joinFinally(call)
  /\ UNCHANGED <<email, isLeaving, isJoined, successMessage, requests>>

\* setIsJoined(true); setSuccessMessage(...); onJoinSuccess?.(result)
joinSuccess(call, result) ==
  /\ isJoined' = TRUE
  /\ successMessage' = Some(Coalesce(result.message, JoinedMsg))
  /\ callback' = OnSuccess("onJoinSuccess", result)
  /\ returned' = Some(result)
  /\ event' = [Ev("settle", "join", "success", "resolved", FALSE,
                Body(result))
                EXCEPT !.stale = call.stale,
                       !.late = ~call.stale /\ ~isJoining]
  /\ joinFinally(call)
  /\ UNCHANGED <<email, isLeaving, error, requests>>

\* faulty variant: the catch block of join reports nothing to onJoinError
joinCatchSilent(call) ==
  /\ error' = Some(NetworkMsg)
  /\ callback' = Undefined
  /\ returned' = Some(Failure(NetworkMsg))
  /\ event' = [Ev("settle", "join", "network", "resolved", FALSE,
                Threw(call.pc))
                EXCEPT !.stale = call.stale,
                       !.late = ~call.stale /\ ~isJoining]
  /\ joinFinally(call)
  /\ UNCHANGED <<email, isLeaving, isJoined, successMessage, requests>>

\* catch { ... }: fetch or res.json() rejected (the step records which)
joinCatch(call) ==
  /\ error' = Some(NetworkMsg)
  /\ callback' = OnError("onJoinError", NetworkMsg)
  /\ returned' = Some(Failure(NetworkMsg))
  /\ event' = [Ev("settle", "join", "network", "resolved", FALSE,
                Threw(call.pc))
                EXCEPT !.stale = call.stale,
                       !.late = ~call.stale /\ ~isJoining]
  /\ joinFinally(call)
  /\ UNCHANGED <<email, isLeaving, isJoined, successMessage, requests>>

\* the continuation after `await fetch(url, ...)` resolves
joinOnResponse(call, status) ==
  IF status = 429 THEN joinRateLimited(call, status)
  ELSE joinAwaitJson(call, status)

\* the continuation after `await res.json()` resolves
joinOnJson(call, result) ==
  IF ~call.ok \/ ~result.success
  THEN joinAppError(call, result)
  ELSE joinSuccess(call, result)

\* ------------------------------------------------------ useWaitlist: leave
\* the validation gate of leave: no request is made
leaveInvalid(emailInput) ==
  /\ error' = Some(InvalidEmailMsg)
  /\ callback' = OnError("onLeaveError", InvalidEmailMsg)
  /\ returned' = Some(Failure(InvalidEmailMsg))
  /\ event' = Ev("call", "leave", "invalidEmail", "resolved", FALSE,
                Arg(emailInput))
  /\ UNCHANGED <<email, isJoining, isLeaving, isJoined, successMessage>>
  /\ UNCHANGED <<inflight, requests>>

\* faulty variant: leave makes the request without raising isLeaving
leaveSendFlagUnset(emailInput, cleanEmail) ==
  /\ BagCardinality(inflight) < MaxPending
  /\ requests < MaxRequests
  /\ isLeaving' = isLeaving
  /\ error' = Undefined
  /\ successMessage' = Undefined
  /\ inflight' = AddCall(inflight,
       [op |-> "leave", pc |-> "fetch", ok |-> FALSE, stale |-> FALSE])
  /\ requests' = requests + 1
  /\ event' = [Ev("call", "leave", "sent", "pending", TRUE, Arg(emailInput))
                EXCEPT !.request = Some(cleanEmail)]
  /\ returned' = Undefined
  /\ callback' = Undefined
  /\ UNCHANGED <<email, isJoining, isJoined>>

\* the flags set before the request, and the request itself
leaveSend(emailInput, cleanEmail) ==
  /\ BagCardinality(inflight) < MaxPending
  /\ requests < MaxRequests
  /\ isLeaving' = TRUE
  /\ error' = Undefined
  /\ successMessage' = Undefined
  /\ inflight' = AddCall(inflight,
       [op |-> "leave", pc |-> "fetch", ok |-> FALSE, stale |-> FALSE])
  /\ requests' = requests + 1
  /\ event' = [Ev("call", "leave", "sent", "pending", TRUE, Arg(emailInput))
                EXCEPT !.request = Some(cleanEmail)]
  /\ returned' = Undefined
  /\ callback' = Undefined
  /\ UNCHANGED <<email, isJoining, isJoined>>

leave(emailInput) ==
  LET cleanEmail == toLowerCase(sanitizeInput(emailInput)) IN
  IF ~isValidEmail(cleanEmail)
  THEN leaveInvalid(emailInput)
  ELSE leaveSend(emailInput, cleanEmail)

\* finally { setIsLeaving(false) }, and the call is over
leaveFinally(call) ==
  /\ isLeaving' = FALSE
  /\ inflight' = RemoveCall(inflight, call)

\* if (res.status === 429) { ... }
leaveRateLimited(call, status) ==
  /\ error' = Some(RateLimitedMsg)
  /\ callback' = OnError("onLeaveError", RateLimitedMsg)
  /\ returned' = Some(Failure(RateLimitedMsg))
  /\ event' = [Ev("settle", "leave", "rateLimited", "resolved", FALSE,
                Status(status))
                EXCEPT !.stale = call.stale,
                       !.late = ~call.stale /\ ~isLeaving]
  /\ leaveFinally(call)
  /\ UNCHANGED <<email, isJoining, isJoined, successMessage, requests>>

\* fetch resolved with another status: the call goes on to await res.json()
leaveAwaitJson(call, status) ==
  /\ inflight' = AddCall(RemoveCall(inflight, call),
       [call EXCEPT !.pc = "json", !.ok = IsOk(status)])
  /\ event' = Ev("response", "leave", "awaitJson", "pending", FALSE,
                Status(status))
  /\ returned' = Undefined
  /\ callback' = Undefined
  /\ UNCHANGED <<waitVars, requests>>

\* if (!res.ok || !result.success) { ... return result; }
leaveAppError(call, result) ==
  LET errorMsg == Coalesce(result.error, UnknownMsg) IN
  /\ error' = Some(errorMsg)
  /\ callback' = OnError("onLeaveError", errorMsg)
  /\ returned' = Some(result)
  /\ event' = [Ev("settle", "leave", "appError", "resolved", FALSE,
                Body(result))
                EXCEPT !.stale = call.stale,
                       !.late = ~call.stale /\ ~isLeaving]
  /\ leaveFinally(call)
  /\ UNCHANGED <<email, isJoining, isJoined, successMessage, requests>>

\* faulty variant: leave reports the message of the body only, with no default
leaveSuccessNoDefault(call, result) ==
  /\ isJoined' = FALSE
  /\ successMessage' = result.message
  /\ callback' = OnSuccess("onLeaveSuccess", result)
  /\ returned' = Some(result)
  /\ event' = [Ev("settle", "leave", "success", "resolved", FALSE,
                Body(result))
                EXCEPT !.stale = call.stale,
                       !.late = ~call.stale /\ ~isLeaving]
  /\ leaveFinally(call)
  /\ UNCHANGED <<email, isJoining, error, requests>>

\* setIsJoined(false); setSuccessMessage(...); onLeaveSuccess?.(result)
leaveSuccess(call, result) ==
  /\ isJoined' = FALSE
  /\ successMessage' = Some(Coalesce(result.message, LeftMsg))
  /\ callback' = OnSuccess("onLeaveSuccess", result)
  /\ returned' = Some(result)
  /\ event' = [Ev("settle", "leave", "success", "resolved", FALSE,
                Body(result))
                EXCEPT !.stale = call.stale,
                       !.late = ~call.stale /\ ~isLeaving]
  /\ leaveFinally(call)
  /\ UNCHANGED <<email, isJoining, error, requests>>

\* faulty variant: the catch path of leave returns before isLeaving is cleared
leaveCatchFlagKept(call) ==
  /\ error' = Some(NetworkMsg)
  /\ callback' = OnError("onLeaveError", NetworkMsg)
  /\ returned' = Some(Failure(NetworkMsg))
  /\ event' = [Ev("settle", "leave", "network", "resolved", FALSE,
                Threw(call.pc))
                EXCEPT !.stale = call.stale,
                       !.late = ~call.stale /\ ~isLeaving]
  /\ inflight' = RemoveCall(inflight, call)
  /\ UNCHANGED <<email, isJoining, isLeaving, isJoined, successMessage, requests>>

\* catch { ... }: fetch or res.json() rejected (the step records which)
leaveCatch(call) ==
  /\ error' = Some(NetworkMsg)
  /\ callback' = OnError("onLeaveError", NetworkMsg)
  /\ returned' = Some(Failure(NetworkMsg))
  /\ event' = [Ev("settle", "leave", "network", "resolved", FALSE,
                Threw(call.pc))
                EXCEPT !.stale = call.stale,
                       !.late = ~call.stale /\ ~isLeaving]
  /\ leaveFinally(call)
  /\ UNCHANGED <<email, isJoining, isJoined, successMessage, requests>>

\* faulty variant: leave parses the body before it looks at the status
leaveOnResponseParsesFirst(call, status) == leaveAwaitJson(call, status)

\* the continuation after `await fetch(url, ...)` resolves
leaveOnResponse(call, status) ==
  IF status = 429 THEN leaveRateLimited(call, status)
  ELSE leaveAwaitJson(call, status)

\* the continuation after `await res.json()` resolves
leaveOnJson(call, result) ==
  IF ~call.ok \/ ~result.success
  THEN leaveAppError(call, result)
  ELSE leaveSuccess(call, result)

\* ------------------------------------------- useWaitlist: setEmail, reset
setEmail(e) ==
  /\ email' = e
  /\ event' = Ev("call", "setEmail", "none", "none", FALSE, Arg(e))
  /\ returned' = Undefined
  /\ callback' = Undefined
  /\ UNCHANGED <<isJoining, isLeaving, isJoined, error, successMessage>>
  /\ UNCHANGED <<inflight, requests>>

\* the pending calls, unchanged but for the note that reset() was called
\* while they were pending
MarkStale ==
  LET old == BagToSet(inflight)
      plain(g) == [g EXCEPT !.stale = FALSE]
      copies(g) == IF g \in old THEN inflight[g] ELSE 0
  IN [g \in {[c EXCEPT !.stale = TRUE] : c \in old} |->
        IF plain(g) = g THEN copies(g) ELSE copies(g) + copies(plain(g))]

\* faulty variant: reset drops the pending calls, their responses are ignored
resetCancels ==
  /\ email' = <<>>
  /\ isJoining' = FALSE
  /\ isLeaving' = FALSE
  /\ isJoined' = FALSE
  /\ error' = Undefined
  /\ successMessage' = Undefined
  /\ event' = Ev("call", "reset", "none", "none", FALSE, NoInput)
  /\ returned' = Undefined
  /\ callback' = Undefined
  /\ inflight' = EmptyBag
  /\ UNCHANGED requests

reset ==
  /\ email' = <<>>
  /\ isJoining' = FALSE
  /\ isLeaving' = FALSE
  /\ isJoined' = FALSE
  /\ error' = Undefined
  /\ successMessage' = Undefined
  /\ event' = Ev("call", "reset", "none", "none", FALSE, NoInput)
  /\ returned' = Undefined
  /\ callback' = Undefined
  /\ inflight' = MarkStale
  /\ UNCHANGED requests

\* ------------------------------------------------------- useWaitlistCount
\* config.shopDomain
ShopDomain == <<"s", ".", "i", "o">>

\* `${config.shopDomain}:${numericId}`
cacheKey(variantId) == ShopDomain \o <<":">> \o extractNumericId(variantId)

GidPrefix ==
  << "g", "i", "d", ":", "/", "/", "s", "h", "o", "p", "i", "f", "y", "/",
     "P", "r", "o", "d", "u", "c", "t", "V", "a", "r", "i", "a", "n", "t", "/" >>

\* the variantId option of a render: widget A follows the selected variant,
\* widget B shows the first variant only
VariantIds(i) ==
  IF i = "A" THEN { GidPrefix \o <<"1">>, <<"2">>, <<>> }
  ELSE { GidPrefix \o <<"1">> }

Instances == {"A", "B"}

\* cacheDuration = 60000
DefaultCacheDuration == 60000

\* options.cacheDuration: A leaves it out, B asks for one clock step
CacheDurationOption(i) == IF i = "A" THEN Undefined ELSE Some(TickMs)

cacheDuration(i) == Coalesce(CacheDurationOption(i), DefaultCacheDuration)

\* res.status of a response of the count endpoint
CountStatuses == {200, 404, 500}

\* JSON bodies of the type WaitlistCountResponse
CountBodies == { [count |-> 3] }

\* what a rejected fetch or res.json() throws: an Error, or another value
Thrown ==
  { [isError |-> TRUE, message |-> "Failed to fetch"],
    [isError |-> FALSE, message |-> "aborted"] }

HttpError == [isError |-> TRUE, message |-> "Failed to fetch waitlist count"]

\* countCache.get(key)
cacheGet(cache, key) ==
  IF key \in DOMAIN cache THEN Some(cache[key]) ELSE Undefined

\* countCache.set(key, entry)
cacheSet(cache, key, entry) ==
  [k \in DOMAIN cache \cup {key} |-> IF k = key THEN entry ELSE cache[k]]

\* countCache.delete(key)
cacheDelete(cache, key) == [k \in DOMAIN cache \ {key} |-> cache[k]]

\* faulty variant: an entry whose age equals cacheDuration still counts as fresh
IsFreshInclusive(cached, duration) ==
  /\ cached # Undefined
  /\ now - cached[1].timestamp <= duration

\* cached && Date.now() - cached.timestamp < cacheDuration
IsFresh(cached, duration) ==
  /\ cached # Undefined
  /\ now - cached[1].timestamp < duration

\* another fetchCount of the same instance is in flight
Overlaps(i) == \E f \in BagToSet(fetches) : f.inst = i

\* the pending fetches, those of instance i marked as overlapped
Marked(f, i) == IF f.inst = i THEN [f EXCEPT !.overlap = TRUE] ELSE f

MarkOverlap(i) ==
  LET old == BagToSet(fetches)
      plain(g) == [g EXCEPT !.overlap = FALSE]
      copies(g) == IF g \in old THEN fetches[g] ELSE 0
  IN [g \in {Marked(f, i) : f \in old} |->
        IF g.inst = i THEN copies(g) + copies(plain(g)) ELSE copies(g)]

\* setCount(cached.count); return
\* (variantId is the option of the render whose fetchCount this is)
fetchCached(i, op, variantId, cache, cached) ==
  /\ countHook' = [countHook EXCEPT ![i].variantId = variantId,
                                    ![i].count = cached.count]
  /\ countCache' = cache
  /\ event' = CEv("call", op, "cached", "resolved", FALSE, Arg(variantId), i)
  /\ UNCHANGED <<fetches, requests>>

\* setIsLoading(true); setError(undefined); await fetch(url, ...)
fetchSend(i, op, variantId, cache) ==
  /\ BagCardinality(fetches) < MaxPending
  /\ requests < MaxRequests
  /\ countHook' = [countHook EXCEPT ![i].variantId = variantId,
                                    ![i].isLoading = TRUE,
                                    ![i].error = Undefined]
  /\ countCache' = cache
  /\ fetches' = AddCall(MarkOverlap(i),
       [inst |-> i, key |-> cacheKey(variantId), pc |-> "fetch",
        overlap |-> Overlaps(i)])
  /\ requests' = requests + 1
  /\ event' = CEv("call", op, "sent", "pending", TRUE, Arg(variantId), i)

\* fetchCount of instance i as created by a render with `variantId`, the Map
\* holding `cache` when it is called
fetchCount(i, op, variantId, cache) ==
  LET cached == cacheGet(cache, cacheKey(variantId)) IN
  IF IsFresh(cached, cacheDuration(i))
  THEN fetchCached(i, op, variantId, cache, cached[1])
  ELSE fetchSend(i, op, variantId, cache)

\* faulty variant: refetch without countCache.delete
refetchKeepsEntry(i) ==
  fetchCount(i, "refetch", countHook[i].variantId, countCache)

\* refetch: countCache.delete(cacheKey); await fetchCount()
refetch(i) ==
  fetchCount(i, "refetch", countHook[i].variantId,
             cacheDelete(countCache, cacheKey(countHook[i].variantId)))

\* a render with the options (variantId, autoFetch), and its effect:
\* if (autoFetch && variantId) { void fetchCount(); }
render(i, variantId, autoFetch) ==
  IF autoFetch /\ variantId # <<>>
  THEN fetchCount(i, "fetchCount", variantId, countCache)
  ELSE /\ countHook' = [countHook EXCEPT ![i].variantId = variantId]
       /\ event' = CEv("call", "render", "none", "none", FALSE, Arg(variantId), i)
       /\ UNCHANGED <<countCache, fetches, requests>>

\* finally { setIsLoading(false) }, and the call is over
countFinally(f) == fetches' = RemoveCall(fetches, f)

\* faulty variant: a 404 sets the count and leaves the cache alone
countNotFoundUncached(f) ==
  LET i == f.inst IN
  /\ countHook' = [countHook EXCEPT ![i].count = 0, ![i].isLoading = FALSE]
  /\ event' = CEv("settle", "fetchCount", "notFound", "resolved", FALSE,
                 Status(404), i)
  /\ countFinally(f)
  /\ UNCHANGED <<countCache, requests>>

\* if (res.status === 404) { setCount(0); countCache.set(...); return; }
countNotFound(f) ==
  LET i == f.inst IN
  /\ countHook' = [countHook EXCEPT ![i].count = 0, ![i].isLoading = FALSE]
  /\ countCache' = cacheSet(countCache, f.key,
                            [count |-> 0, timestamp |-> now])
  /\ event' = CEv("settle", "fetchCount", "notFound", "resolved", FALSE,
                 Status(404), i)
  /\ countFinally(f)
  /\ UNCHANGED requests

\* faulty variant: a failed fetch writes its zero into the cache
countCatchCachesZero(f, err) ==
  LET i == f.inst
      errorMsg == IF err.isError THEN err.message ELSE "Failed to fetch count"
  IN
  /\ countHook' = [countHook EXCEPT ![i].error = Some(errorMsg),
                                    ![i].count = 0,
                                    ![i].isLoading = FALSE]
  /\ countCache' = cacheSet(countCache, f.key,
                            [count |-> 0, timestamp |-> now])
  /\ event' = CEv("settle", "fetchCount", "failed", "resolved", FALSE,
                 Threw(err), i)
  /\ countFinally(f)
  /\ UNCHANGED requests

\* catch (err) { setError(errorMsg); setCount(0); }
countCatch(f, err) ==
  LET i == f.inst
      errorMsg == IF err.isError THEN err.message ELSE "Failed to fetch count"
  IN
  /\ countHook' = [countHook EXCEPT ![i].error = Some(errorMsg),
                                    ![i].count = 0,
                                    ![i].isLoading = FALSE]
  /\ event' = CEv("settle", "fetchCount", "failed", "resolved", FALSE,
                 Threw(err), i)
  /\ countFinally(f)
  /\ UNCHANGED <<countCache, requests>>

\* fetch resolved with an OK status: the call goes on to await res.json()
countAwaitJson(f, status) ==
  /\ fetches' = AddCall(RemoveCall(fetches, f), [f EXCEPT !.pc = "json"])
  /\ event' = CEv("response", "fetchCount", "awaitJson", "pending", FALSE,
                  Status(status), f.inst)
  /\ UNCHANGED <<countHook, countCache, requests>>

\* setCount(result.count); countCache.set(cacheKey, {count, timestamp})
countSuccess(f, result) ==
  LET i == f.inst IN
  /\ countHook' = [countHook EXCEPT ![i].count = result.count,
                                    ![i].isLoading = FALSE]
  /\ countCache' = cacheSet(countCache, f.key,
                            [count |-> result.count, timestamp |-> now])
  /\ event' = CEv("settle", "fetchCount", "success", "resolved", FALSE,
                 Body(result), i)
  /\ countFinally(f)
  /\ UNCHANGED requests

\* the continuation after `await fetch(url, ...)` resolves
countOnResponse(f, status) ==
  IF ~IsOk(status)
  THEN IF status = 404 THEN countNotFound(f) ELSE countCatch(f, HttpError)
  ELSE countAwaitJson(f, status)

\* ------------------------------------------------------- useWaitlist steps
Waiting(call, op, pc) ==
  /\ call \in BagToSet(inflight)
  /\ call.op = op
  /\ call.pc = pc

Join ==
  /\ hook = "useWaitlist"
  /\ \E e \in EmailInputs : join(e)
  /\ UNCHANGED <<hook, countVars>>

Leave ==
  /\ hook = "useWaitlist"
  /\ \E e \in EmailInputs : leave(e)
  /\ UNCHANGED <<hook, countVars>>

SetEmail ==
  /\ hook = "useWaitlist"
  /\ \E e \in TypedEmails : setEmail(e)
  /\ UNCHANGED <<hook, countVars>>

Reset ==
  /\ hook = "useWaitlist"
  /\ reset
  /\ UNCHANGED <<hook, countVars>>

\* the transport answers a join request
JoinResponse ==
  /\ \E call \in BagToSet(inflight) : \E status \in WaitlistStatuses :
       Waiting(call, "join", "fetch") /\ joinOnResponse(call, status)
  /\ UNCHANGED <<hook, countVars>>

\* the body of a join response parses
JoinJson ==
  /\ \E call \in BagToSet(inflight) : \E result \in Bodies :
       Waiting(call, "join", "json") /\ joinOnJson(call, result)
  /\ UNCHANGED <<hook, countVars>>

\* fetch rejects, or res.json() rejects (the body is not JSON)
JoinReject ==
  /\ \E call \in BagToSet(inflight) :
       call.op = "join" /\ joinCatch(call)
  /\ UNCHANGED <<hook, countVars>>

LeaveResponse ==
  /\ \E call \in BagToSet(inflight) : \E status \in WaitlistStatuses :
       Waiting(call, "leave", "fetch") /\ leaveOnResponse(call, status)
  /\ UNCHANGED <<hook, countVars>>

LeaveJson ==
  /\ \E call \in BagToSet(inflight) : \E result \in Bodies :
       Waiting(call, "leave", "json") /\ leaveOnJson(call, result)
  /\ UNCHANGED <<hook, countVars>>

LeaveReject ==
  /\ \E call \in BagToSet(inflight) :
       call.op = "leave" /\ leaveCatch(call)
  /\ UNCHANGED <<hook, countVars>>

\* --------------------------------------------------- useWaitlistCount steps
\* the effect of a render: mount, or a changed variantId / autoFetch / config
Render ==
  /\ hook = "useWaitlistCount"
  /\ \E i \in Instances : \E v \in VariantIds(i) : \E autoFetch \in BOOLEAN :
       render(i, v, autoFetch)
  /\ returned' = Undefined
  /\ callback' = Undefined
  /\ UNCHANGED <<hook, waitVars, inflight, now>>

Refetch ==
  /\ hook = "useWaitlistCount"
  /\ \E i \in Instances : refetch(i)
  /\ returned' = Undefined
  /\ callback' = Undefined
  /\ UNCHANGED <<hook, waitVars, inflight, now>>

\* the transport answers a count request
CountResponse ==
  /\ \E f \in BagToSet(fetches) : \E status \in CountStatuses :
       f.pc = "fetch" /\ countOnResponse(f, status)
  /\ returned' = Undefined
  /\ callback' = Undefined
  /\ UNCHANGED <<hook, waitVars, inflight, now>>

\* the body of a count response parses
CountJson ==
  /\ \E f \in BagToSet(fetches) : \E result \in CountBodies :
       f.pc = "json" /\ countSuccess(f, result)
  /\ returned' = Undefined
  /\ callback' = Undefined
  /\ UNCHANGED <<hook, waitVars, inflight, now>>

\* fetch rejects, or res.json() rejects (the body is not JSON)
CountReject ==
  /\ \E f \in BagToSet(fetches) : \E err \in Thrown : countCatch(f, err)
  /\ returned' = Undefined
  /\ callback' = Undefined
  /\ UNCHANGED <<hook, waitVars, inflight, now>>

\* faulty variant: the pending fetchCount calls are aborted as time passes
TickAborts ==
  /\ hook = "useWaitlistCount"
  /\ now + TickMs <= MaxNow
  /\ now' = now + TickMs
  /\ fetches' = EmptyBag
  /\ countHook' = [i \in Instances |-> [countHook[i] EXCEPT !.isLoading = FALSE]]
  /\ event' = Ev("tick", "none", "none", "none", FALSE, NoInput)
  /\ returned' = Undefined
  /\ callback' = Undefined
  /\ UNCHANGED <<hook, waitVars, inflight, countCache, requests>>

\* time passes
Tick ==
  /\ hook = "useWaitlistCount"
  /\ now + TickMs <= MaxNow
  /\ now' = now + TickMs
  /\ event' = Ev("tick", "none", "none", "none", FALSE, NoInput)
  /\ returned' = Undefined
  /\ callback' = Undefined
  /\ UNCHANGED <<hook, waitVars, inflight, countCache, countHook, fetches, requests>>

\* export const REQUEST_TIMEOUT_MS = 10000: declared, and used by no operation
REQUEST_TIMEOUT_MS == 10000

\* ------------------------------------------------------------ specification
Init ==
  /\ hook \in {"useWaitlist", "useWaitlistCount"}
  /\ email = <<>>
  /\ isJoining = FALSE
  /\ isLeaving = FALSE
  /\ isJoined = FALSE
  /\ error = Undefined
  /\ successMessage = Undefined
  /\ inflight = EmptyBag
  /\ countCache = [k \in {} |-> Undefined]
  /\ countHook = [i \in Instances |->
       [variantId |-> <<>>, count |-> 0, isLoading |-> FALSE,
        error |-> Undefined]]
  /\ fetches = EmptyBag
  /\ now = 0
  /\ requests = 0
  /\ event = Ev("init", "none", "none", "none", FALSE, NoInput)
  /\ returned = Undefined
  /\ callback = Undefined

Next ==
  \/ Join
  \/ Leave
  \/ SetEmail
  \/ Reset
  \/ JoinResponse
  \/ JoinJson
  \/ JoinReject
  \/ LeaveResponse
  \/ LeaveJson
  \/ LeaveReject
  \/ Render
  \/ Refetch
  \/ CountResponse
  \/ CountJson
  \/ CountReject
  \/ Tick

Spec == Init /\ [][Next]_vars

\* useWaitlist alone: one mounted instance
WaitlistInit == Init /\ hook = "useWaitlist"

WaitlistNext ==
  \/ Join
  \/ Leave
  \/ SetEmail
  \/ Reset
  \/ JoinResponse
  \/ JoinJson
  \/ JoinReject
  \/ LeaveResponse
  \/ LeaveJson
  \/ LeaveReject

WaitlistSpec == WaitlistInit /\ [][WaitlistNext]_vars

\* useWaitlist used by a caller whose calls do not overlap: join and leave
\* are called only when no earlier call is pending (reset and setEmail are
\* synchronous and may come at any time)
JoinInTurn ==
  /\ inflight = EmptyBag
  /\ Join

LeaveInTurn ==
  /\ inflight = EmptyBag
  /\ Leave

InTurnNext ==
  \/ JoinInTurn
  \/ LeaveInTurn
  \/ SetEmail
  \/ Reset
  \/ JoinResponse
  \/ JoinJson
  \/ JoinReject
  \/ LeaveResponse
  \/ LeaveJson
  \/ LeaveReject

InTurnSpec == WaitlistInit /\ [][InTurnNext]_vars

\* useWaitlistCount alone: the instances A and B and the cache they share
CountInit == Init /\ hook = "useWaitlistCount"

CountNext ==
  \/ Render
  \/ Refetch
  \/ CountResponse
  \/ CountJson
  \/ CountReject
  \/ Tick

CountSpec == CountInit /\ [][CountNext]_vars

\* useWaitlistCount used in turn: a render or refetch comes only when no
\* fetchCount call is pending
RenderInTurn ==
  /\ fetches = EmptyBag
  /\ Render

RefetchInTurn ==
  /\ fetches = EmptyBag
  /\ Refetch

\* the transport answers or fails some pending request
Transport ==
  \/ JoinResponse
  \/ JoinJson
  \/ JoinReject
  \/ LeaveResponse
  \/ LeaveJson
  \/ LeaveReject
  \/ CountResponse
  \/ CountJson
  \/ CountReject

FairNext ==
  \/ JoinInTurn
  \/ LeaveInTurn
  \/ SetEmail
  \/ Reset
  \/ RenderInTurn
  \/ RefetchInTurn
  \/ Tick
  \/ Transport

\* both stateful hooks, called in turn, over a transport that eventually
\* answers or fails every request it was given
FairSpec == Init /\ [][FairNext]_vars /\ WF_vars(Transport)

\* ---------------------------------------------------- useVariantAvailability
\* the stateful hooks as constructed, with nothing called on them
Untouched ==
  /\ email = <<>>
  /\ isJoining = FALSE
  /\ isLeaving = FALSE
  /\ isJoined = FALSE
  /\ error = Undefined
  /\ successMessage = Undefined
  /\ inflight = EmptyBag
  /\ countCache = [k \in {} |-> Undefined]
  /\ countHook = [i \in Instances |->
       [variantId |-> <<>>, count |-> 0, isLoading |-> FALSE,
        error |-> Undefined]]
  /\ fetches = EmptyBag
  /\ now = 0
  /\ requests = 0
  /\ callback = Undefined

\* largest quantityAvailable drawn
MaxQuantity == 6

\* largest lowStockThreshold drawn
MaxThreshold == 6

\* quantityAvailable?: number (Shopify reports a negative one when oversold)
Quantities == {Undefined} \cup {Some(q) : q \in (0 - 1)..MaxQuantity}

\* variant: VariantInfo | null, reduced to the two fields the hook reads
Variants ==
  {Undefined} \cup
  {Some(v) : v \in [availableForSale : BOOLEAN, quantityAvailable : Quantities]}

\* UseVariantAvailabilityOptions
AvailabilityOptions ==
  [variant : Variants,
   lowStockThreshold : {Undefined} \cup {Some(t) : t \in 0..MaxThreshold}]

\* lowStockThreshold = 5
DefaultLowStockThreshold == 5

\* faulty variant: an absent variant offers notify-me
absentVariantNotifies ==
  [status |-> "out_of_stock", isAvailable |-> FALSE, isOutOfStock |-> TRUE,
   isLowStock |-> FALSE, showNotifyMe |-> TRUE,
   quantityAvailable |-> Undefined]

\* the result for `variant: null`
absentVariant ==
  [status |-> "out_of_stock", isAvailable |-> FALSE, isOutOfStock |-> TRUE,
   isLowStock |-> FALSE, showNotifyMe |-> FALSE,
   quantityAvailable |-> Undefined]

\* let status = 'available'; if (!availableForSale) ... else if (... === 0) ...
statusOf(variant) ==
  IF ~variant.availableForSale THEN "out_of_stock"
  ELSE IF variant.quantityAvailable # Undefined
          /\ variant.quantityAvailable[1] = 0 THEN "preorder"
  ELSE "available"

\* faulty variant: a quantity of 0 counts as low stock
isLowStockFromZero(variant, lowStockThreshold) ==
  /\ variant.availableForSale
  /\ variant.quantityAvailable # Undefined
  /\ variant.quantityAvailable[1] >= 0
  /\ variant.quantityAvailable[1] <= lowStockThreshold

\* availableForSale && quantityAvailable !== undefined
\*   && quantityAvailable > 0 && quantityAvailable <= lowStockThreshold
isLowStock(variant, lowStockThreshold) ==
  /\ variant.availableForSale
  /\ variant.quantityAvailable # Undefined
  /\ variant.quantityAvailable[1] > 0
  /\ variant.quantityAvailable[1] <= lowStockThreshold

\* the value the hook returns for `options`
useVariantAvailability(options) ==
  LET lowStockThreshold ==
        Coalesce(options.lowStockThreshold, DefaultLowStockThreshold)
  IN IF options.variant = Undefined THEN absentVariant
     ELSE LET variant == options.variant[1]
              isOutOfStock == ~variant.availableForSale
          IN [status |-> statusOf(variant),
              isAvailable |-> variant.availableForSale,
              isOutOfStock |-> isOutOfStock,
              isLowStock |-> isLowStock(variant, lowStockThreshold),
              showNotifyMe |-> isOutOfStock,
              quantityAvailable |-> variant.quantityAvailable]

\* a render of a component that uses the hook with `options`
renderAvailability(options) ==
  /\ event' = Ev("render", "useVariantAvailability", "none", "none", FALSE,
                Arg(options))
  /\ returned' = Some(useVariantAvailability(options))

RenderAvailability ==
  /\ hook = "useVariantAvailability"
  /\ \E options \in AvailabilityOptions : renderAvailability(options)
  /\ UNCHANGED <<hook, waitVars, countVars, inflight, requests, callback>>

AvailabilityInit ==
  /\ hook = "useVariantAvailability"
  /\ Untouched
  /\ \E options \in AvailabilityOptions :
       /\ event = Ev("render", "useVariantAvailability", "none", "none",
                     FALSE, Arg(options))
       /\ returned = Some(useVariantAvailability(options))

AvailabilityNext == RenderAvailability

AvailabilitySpec == AvailabilityInit /\ [][AvailabilityNext]_vars

\* ------------------------------------------------- the validation utilities
\* longest input drawn character by character
MaxLen == 5

\* the strings of at most n characters of `alphabet`
StringsOver(alphabet, n) == UNION {[1..k -> alphabet] : k \in 0..n}

\* the string of n times the character c
Repeat(c, n) == [k \in 1..n |-> c]

\* inputs shaped like an email address, or nearly
EmailLike ==
  StringsOver({"a", "@", ".", " "}, MaxLen) \cup
  { <<"u", "s", "e", "r", "@">>,
    <<"u", "s", "e", "r", "@", "d", "o", "m", "a", "i", "n">>,
    <<"u", "s", "e", "r", " ", "@", "e", "x", "a", "m", "p", "l", "e", ".",
      "c", "o", "m">>,
    <<"u", "s", "e", "r", "+", "t", "a", "g", "@", "d", "o", "m", "a", "i",
      "n", ".", "c", "o">>,
    <<"\t", "a", "@", "b", ".", "c", "\n">>,
    <<"a", "\t", "@", "b", ".", "c">> }

\* "gid://shopify/Order/": a GID of a third resource type
OrderGid == ShopifyGid \o <<"O", "r", "d", "e", "r", "/">>

\* inputs shaped like a variant or product id, or nearly
IdLike ==
  { prefix \o tail :
      prefix \in {<<>>, VariantGid, ProductGid, OrderGid, <<"x">> \o ProductGid},
      tail \in StringsOver({"1", "a", "/"}, MaxLen) } \cup
  { ProductGid \o <<"1", "2", "3">>, VariantGid \o <<"1", "2", "3">>,
    <<"1", "2", "3">>, <<"0", "9">>, <<" ", "1">>, <<"1", "\n">> }

\* free text, with angle brackets, with blanks around it, and around the
\* length limit of sanitizeInput
TextLike ==
  StringsOver({"a", " ", "<", ">"}, MaxLen) \cup
  { Repeat("a", n) : n \in {MaxInputLength - 1, MaxInputLength,
                            MaxInputLength + 1, MaxInputLength + 100} } \cup
  { <<" ", "<">> \o Repeat("a", MaxInputLength) \o <<">", "b", " ">>,
    Repeat("<", MaxInputLength) \o <<"a", "b">>,
    Repeat("a", MaxInputLength) \o <<" ", "b">> }

\* the arguments the utilities are called with
ValidationInputs == EmailLike \cup IdLike \cup TextLike \cup NonStrings

\* a call of the utility `fn` on the input drawn, which returns `result`
returns(fn, result) ==
  /\ event' = Ev("call", fn, "returned", "none", FALSE, event.input)
  /\ returned' = Some(result)

\* a call of the utility `fn` on the input drawn, which throws a TypeError
throws(fn) ==
  /\ event' = Ev("call", fn, "TypeError", "none", FALSE, event.input)
  /\ returned' = Undefined

CallIsValidEmail ==
  /\ hook = "validation"
  /\ returns("isValidEmail", isValidEmail(event.input.arg))
  /\ UNCHANGED <<hook, waitVars, countVars, inflight, requests, callback>>

CallIsValidVariantId ==
  /\ hook = "validation"
  /\ returns("isValidVariantId", isValidVariantId(event.input.arg))
  /\ UNCHANGED <<hook, waitVars, countVars, inflight, requests, callback>>

CallIsValidProductId ==
  /\ hook = "validation"
  /\ returns("isValidProductId", isValidProductId(event.input.arg))
  /\ UNCHANGED <<hook, waitVars, countVars, inflight, requests, callback>>

CallSanitizeInput ==
  /\ hook = "validation"
  /\ returns("sanitizeInput", sanitizeInput(event.input.arg))
  /\ UNCHANGED <<hook, waitVars, countVars, inflight, requests, callback>>

\* gid.match is not a function when gid is a number or an object
CallExtractNumericId ==
  /\ hook = "validation"
  /\ IF Falsy(event.input.arg) \/ IsString(event.input.arg)
     THEN returns("extractNumericId", extractNumericId(event.input.arg))
     ELSE throws("extractNumericId")
  /\ UNCHANGED <<hook, waitVars, countVars, inflight, requests, callback>>

ValidationInit ==
  /\ hook = "validation"
  /\ Untouched
  /\ \E input \in ValidationInputs :
       event = Ev("init", "none", "none", "none", FALSE, Arg(input))
  /\ returned = Undefined

ValidationNext ==
  \/ CallIsValidEmail
  \/ CallIsValidVariantId
  \/ CallIsValidProductId
  \/ CallSanitizeInput
  \/ CallExtractNumericId

ValidationSpec == ValidationInit /\ [][ValidationNext]_vars

\* ----------------------------------------------------------------- claims
PendingOf(op) == {call \in BagToSet(inflight) : call.op = op}

\* C1 as stated: isJoining and isLeaving are never both true.
C1_NeverBothInFlight == ~(isJoining /\ isLeaving)

\* C1 (amended): isJoining and isLeaving are both true only while a join call
\* and a leave call of the instance are pending at the same time.
C1_BothOnlyWhileOverlapping ==
  (isJoining /\ isLeaving) => (PendingOf("join") # {} /\ PendingOf("leave") # {})

C1_Witness ==
  /\ isJoining
  /\ isLeaving
  /\ PendingOf("join") # {}
  /\ PendingOf("leave") # {}

\* C3: a join (leave) call whose sanitized, lowercased input fails
\* isValidEmail issues no request, sets error to the invalid-email message,
\* invokes onJoinError (onLeaveError) with it and resolves to
\* {success: false, error: invalidEmailMessage}.
C3_InvalidEmailGate ==
  \A op \in {"join", "leave"} :
    ( /\ event.name = "call"
      /\ event.op = op
      /\ ~isValidEmail(toLowerCase(sanitizeInput(event.input.arg))) )
    => /\ ~event.sent
       /\ event.promise = "resolved"
       /\ error = Some(InvalidEmailMsg)
       /\ callback = OnError(IF op = "join" THEN "onJoinError" ELSE "onLeaveError",
                             InvalidEmailMsg)
       /\ returned = Some(Failure(InvalidEmailMsg))

\* leave("a @b.c") while a join is pending: turned away, still one request
C3_Witness ==
  /\ event.name = "call"
  /\ event.op = "leave"
  /\ event.input.arg = <<"a", " ", "@", "b", ".", "c">>
  /\ ~event.sent
  /\ error = Some(InvalidEmailMsg)
  /\ isJoining
  /\ requests = 1

\* the step settles a call of `op` whose response was OK and whose body says
\* success: true
SettledOk(op) ==
  \E call \in BagToSet(inflight) :
    /\ call.op = op
    /\ call.pc = "json"
    /\ call.ok
    /\ inflight' = RemoveCall(inflight, call)
    /\ returned' # Undefined
    /\ returned'[1].success

\* C2 as stated: isJoined turns true only by a successful join response and
\* turns false only by a successful leave response.
C2_OnlyResponsesChangeIsJoined ==
  [][isJoined' # isJoined =>
       IF isJoined' THEN SettledOk("join") ELSE SettledOk("leave")]_vars

\* C2 (amended): isJoined turns true only by a successful join response and
\* turns false only by a successful leave response or by reset(); every
\* failing join or leave leaves it unchanged.
C2_OnlyResponsesOrResetChangeIsJoined ==
  [][isJoined' # isJoined =>
       IF isJoined' THEN SettledOk("join")
       ELSE SettledOk("leave") \/ (hook = "useWaitlist" /\ reset)]_vars

\* a join answered 200 with success: true turned isJoined on
C2_Witness ==
  /\ event.name = "settle"
  /\ event.op = "join"
  /\ returned # Undefined
  /\ returned[1].success
  /\ successMessage = Some(JoinedMsg)
  /\ isJoined

FetchesOf(i) == {f \in BagToSet(fetches) : f.inst = i}

FailurePaths == {"invalidEmail", "rateLimited", "appError", "network"}

FailedCall(op) ==
  /\ event.op = op
  /\ event.name \in {"call", "settle"}
  /\ event.path \in FailurePaths

ErrorCallbackOf(op) == IF op = "join" THEN "onJoinError" ELSE "onLeaveError"

\* C5 as stated: every failure path of join and leave resolves to a result
\* with success = false and an error string, never rejects, and invokes the
\* error callback.
C5_FailuresReturnFailure ==
  \A op \in {"join", "leave"} :
    FailedCall(op) =>
      /\ event.promise = "resolved"
      /\ returned # Undefined
      /\ returned[1].success = FALSE
      /\ returned[1].error # Undefined
      /\ callback # Undefined
      /\ callback[1].name = ErrorCallbackOf(op)

\* the cacheDuration the claims give each instance: 60000 ms by default
ClaimedDuration(i) ==
  IF CacheDurationOption(i) = Undefined THEN 60000 ELSE CacheDurationOption(i)[1]

\* the entry of `key` is in its cache window
InWindow(key, i) ==
  /\ key \in DOMAIN countCache
  /\ now - countCache[key].timestamp < ClaimedDuration(i)

\* C6: the cache is shared by all instances and keyed by (shopDomain,
\* numericVariantId); a fetchCount call issues a request exactly when the
\* key has no entry with now - timestamp < cacheDuration (default 60000), so
\* a call inside the window of an entry issues none and a call made once the
\* entry's age has reached cacheDuration issues one.
C6_RequestIffNotFresh ==
  \A i \in Instances :
    (event.name = "call" /\ event.op = "fetchCount" /\ event.inst = i) =>
      LET key == ShopDomain \o <<":">> \o extractNumericId(event.input.arg) IN
      /\ event.sent <=> ~InWindow(key, i)
      /\ ~event.sent => countHook[i].count = countCache[key].count
      /\ event.sent =>
           \E f \in FetchesOf(i) : f.key = key /\ f.pc = "fetch"

\* the entry written at 0 is 60000 ms old: instance A, on the default
\* duration, issues the second request
C6_Witness ==
  /\ event.name = "call"
  /\ event.op = "fetchCount"
  /\ event.inst = "A"
  /\ event.sent
  /\ requests = 2
  /\ cacheKey(event.input.arg) \in DOMAIN countCache
  /\ now - countCache[cacheKey(event.input.arg)].timestamp = 60000

\* C7: a fetchCount that ends in a non-OK status other than 404, a transport
\* failure or an unparseable body sets the error string and count = 0,
\* resolves, and leaves the cache as it was.
C7_FailureLeavesCacheAlone ==
  [][(hook = "useWaitlistCount" /\ event'.name = "settle") =>
       \A f \in BagToSet(fetches) :
         ( \/ f.pc = "fetch" /\ countOnResponse(f, 500)
           \/ \E err \in Thrown : countCatch(f, err) )
         => /\ countHook'[f.inst].error # Undefined
            /\ countHook'[f.inst].count = 0
            /\ event'.promise = "resolved"
            /\ countCache' = countCache
    ]_vars

\* a 500 for a key that has no entry: error, count 0, still no entry
C7_Witness ==
  /\ event.name = "settle"
  /\ event.op = "fetchCount"
  /\ event.input.kind = "thrown"
  /\ countHook[event.inst].error = Some("Failed to fetch waitlist count")
  /\ countHook[event.inst].count = 0
  /\ countCache = [k \in {} |-> Undefined]
  /\ requests = 1

C9_RefetchAlwaysRequests ==
  \A i \in Instances :
    (event.name = "call" /\ event.op = "refetch" /\ event.inst = i) =>
      LET key == ShopDomain \o <<":">> \o extractNumericId(countHook[i].variantId) IN
      /\ event.sent
      /\ key \notin DOMAIN countCache
      /\ \E f \in FetchesOf(i) : f.key = key /\ f.pc = "fetch"

\* B was served 3 for variant 1 at time 0, so the entry was fresh when A
\* called refetch for variant 1: the second request
C9_Witness ==
  /\ event.name = "call"
  /\ event.op = "refetch"
  /\ event.inst = "A"
  /\ event.sent
  /\ countHook["A"].variantId = GidPrefix \o <<"1">>
  /\ countHook["B"].count = 3
  /\ now = 0
  /\ requests = 2

\* C10: a 429 from the join or the leave endpoint settles the call at once,
\* the body unread: error is the rate-limited message, the error callback
\* is invoked with it and the call returns {success: false, error: message}.
C10_RateLimited ==
  \A op \in {"join", "leave"} :
    (event.op = op /\ event.input.status = 429) =>
      /\ event.name = "settle"
      /\ event.promise = "resolved"
      /\ error = Some(RateLimitedMsg)
      /\ callback = OnError(ErrorCallbackOf(op), RateLimitedMsg)
      /\ returned = Some(Failure(RateLimitedMsg))

\* leave answered 429 while the instance is joined: it stays joined
C10_Witness ==
  /\ event.op = "leave"
  /\ event.input.status = 429
  /\ error = Some(RateLimitedMsg)
  /\ returned = Some(Failure(RateLimitedMsg))
  /\ isJoined

\* the step settles `call`, which was awaiting res.json(), with a parsed body
SettlesWithBody(call) ==
  /\ hook = "useWaitlist"
  /\ event'.name = "settle"
  /\ event'.input.kind = "body"
  /\ call.pc = "json"
  /\ event'.op = call.op
  /\ inflight' = RemoveCall(inflight, call)

\* C11: a response with an OK status and success: true sets isJoined to true
\* (join) or false (leave), sets successMessage to result.message or the
\* default joined (left) message, invokes onJoinSuccess (onLeaveSuccess) with
\* the result, returns the result and ends with isJoining (isLeaving) false.
C11_SuccessOutcome ==
  [][\A call \in BagToSet(inflight) :
       LET result == event'.input.body[1] IN
       (SettlesWithBody(call) /\ call.ok /\ result.success) =>
         /\ returned' = Some(result)
         /\ call.op = "join" =>
              /\ isJoined'
              /\ successMessage' = Some(Coalesce(result.message, JoinedMsg))
              /\ callback' = OnSuccess("onJoinSuccess", result)
              /\ ~isJoining'
         /\ call.op = "leave" =>
              /\ ~isJoined'
              /\ successMessage' = Some(Coalesce(result.message, LeftMsg))
              /\ callback' = OnSuccess("onLeaveSuccess", result)
              /\ ~isLeaving']_vars

\* a leave answered 200 with success: true and no message, after a join that
\* had succeeded: the default left message
C11_Witness ==
  /\ event.name = "settle"
  /\ event.op = "leave"
  /\ event.input.kind = "body"
  /\ event.input.body[1].success
  /\ event.input.body[1].message = Undefined
  /\ successMessage = Some(LeftMsg)
  /\ callback = OnSuccess("onLeaveSuccess", event.input.body[1])
  /\ ~isJoined
  /\ ~isLeaving
  /\ requests = 2

\* C12: a join response other than 429 whose status is not OK or whose body
\* says success: false sets error to the body's error, or to the unknown
\* message when the body has none, invokes onJoinError with that message and
\* returns the parsed body unchanged.
C12_JoinApplicationError ==
  [][\A call \in BagToSet(inflight) :
       LET result == event'.input.body[1] IN
       (SettlesWithBody(call) /\ call.op = "join"
          /\ (~call.ok \/ ~result.success)) =>
         /\ error' = IF result.error # Undefined THEN result.error
                     ELSE Some(UnknownMsg)
         /\ callback' = OnError("onJoinError", error'[1])
         /\ returned' = Some(result)]_vars

\* HTTP 500 whose body says success: true and has no error field: the unknown
\* message is reported and the body, success: true, is what join returns
C12_Witness ==
  /\ event.name = "settle"
  /\ event.op = "join"
  /\ event.path = "appError"
  /\ event.input.body[1].success
  /\ event.input.body[1].error = Undefined
  /\ error = Some(UnknownMsg)
  /\ callback = OnError("onJoinError", UnknownMsg)
  /\ returned = event.input.body
  /\ ~isJoined

\* C13: when fetch rejects (no response) or res.json() rejects (the body is
\* not valid JSON) during join or leave, error is the network message, the
\* operation's error callback is invoked with it and the call returns
\* {success: false, error: networkMessage}.
C13_NetworkFailure ==
  \A op \in {"join", "leave"} :
    (event.name = "settle" /\ event.op = op /\ event.input.kind = "thrown") =>
      /\ event.promise = "resolved"
      /\ error = Some(NetworkMsg)
      /\ callback = OnError(ErrorCallbackOf(op), NetworkMsg)
      /\ returned = Some(Failure(NetworkMsg))

\* the body of the response to a leave was not valid JSON
C13_Witness ==
  /\ event.name = "settle"
  /\ event.op = "leave"
  /\ event.input = Threw("json")
  /\ error = Some(NetworkMsg)
  /\ callback = OnError("onLeaveError", NetworkMsg)
  /\ returned = Some(Failure(NetworkMsg))

\* C14: a join or leave call issues exactly one request when its email is
\* valid and none when it is invalid, and no later step of the call (429,
\* non-OK status, rejection, success) issues another: a step raises the number
\* of requests sent, by one, exactly when it is a call with a valid email, so
\* the requests sent never outnumber the calls made.
C14_OneRequestPerCall ==
  [][hook = "useWaitlist" =>
       /\ requests' \in {requests, requests + 1}
       /\ requests' = requests + 1 <=>
            /\ event'.name = "call"
            /\ event'.op \in {"join", "leave"}
            /\ isValidEmail(toLowerCase(sanitizeInput(event'.input.arg)))]_vars

\* one join with a valid email, answered 429: one request was sent and
\* nothing is pending
C14_Witness ==
  /\ event.name = "settle"
  /\ event.op = "join"
  /\ event.path = "rateLimited"
  /\ error = Some(RateLimitedMsg)
  /\ requests = 1
  /\ inflight = EmptyBag

\* the options of the last render of useVariantAvailability, and its result
Options == event.input.arg

Result == returned[1]

\* C15: for a present variant, status is out_of_stock when availableForSale
\* is false, preorder when availableForSale is true and quantityAvailable is
\* 0, available otherwise; isLowStock is true exactly when availableForSale
\* is true and quantityAvailable is defined with
\* 0 < quantityAvailable <= lowStockThreshold (5 when not given).
C15_StatusAndLowStock ==
  (hook = "useVariantAvailability" /\ Options.variant # Undefined) =>
    LET sale == Options.variant[1].availableForSale
        qty == Options.variant[1].quantityAvailable
        threshold == IF Options.lowStockThreshold = Undefined THEN 5
                     ELSE Options.lowStockThreshold[1]
    IN /\ ~sale => Result.status = "out_of_stock"
       /\ (sale /\ qty = Some(0)) => Result.status = "preorder"
       /\ (sale /\ qty # Some(0)) => Result.status = "available"
       /\ Result.isLowStock <=>
            (sale /\ qty # Undefined /\ 0 < qty[1] /\ qty[1] <= threshold)

\* five in stock and no threshold given: low stock by the default of 5
C15_Witness ==
  /\ hook = "useVariantAvailability"
  /\ Options.lowStockThreshold = Undefined
  /\ Options.variant =
       Some([availableForSale |-> TRUE, quantityAvailable |-> Some(5)])
  /\ Result.status = "available"
  /\ Result.isLowStock

\* C16: showNotifyMe equals isOutOfStock for every present variant, so a
\* preorder variant never shows notify-me; an absent variant gives
\* isOutOfStock true, isAvailable false, status out_of_stock and showNotifyMe
\* false.
C16_NotifyMe ==
  hook = "useVariantAvailability" =>
    IF Options.variant = Undefined
    THEN /\ Result.isOutOfStock
         /\ ~Result.isAvailable
         /\ Result.status = "out_of_stock"
         /\ ~Result.showNotifyMe
    ELSE /\ Result.showNotifyMe = Result.isOutOfStock
         /\ Result.isOutOfStock = ~Options.variant[1].availableForSale
         /\ Result.status = "preorder" => ~Result.showNotifyMe

\* no variant selected: out of stock, yet no notify-me
C16_Witness ==
  /\ hook = "useVariantAvailability"
  /\ Options.variant = Undefined
  /\ Result.isOutOfStock
  /\ ~Result.showNotifyMe

\* the argument of the last call of a validation utility
Input == event.input.arg

\* the call of the utility `fn` has returned
Returned(fn) == hook = "validation" /\ event.op = fn /\ event.path = "returned"

\* the positions of s that hold no whitespace
Inked(s) == {i \in 1..Len(s) : s[i] \notin {" ", "\t", "\n"}}

\* s without its leading and trailing whitespace
Trimmed(s) ==
  IF Inked(s) = {} THEN <<>>
  ELSE LET first == CHOOSE i \in Inked(s) : \A k \in Inked(s) : i <= k
           last == CHOOSE i \in Inked(s) : \A k \in Inked(s) : k <= i
       IN SubSeq(s, first, last)

\* t has the shape local@domain.tld: no whitespace, exactly one @, a
\* non-empty local part, and a dot in the domain with text on both sides
HasEmailShape(t) ==
  /\ Inked(t) = 1..Len(t)
  /\ Cardinality({i \in 1..Len(t) : t[i] = "@"}) = 1
  /\ LET at == CHOOSE i \in 1..Len(t) : t[i] = "@" IN
     /\ at > 1
     /\ \E dot \in (at + 2)..(Len(t) - 1) : t[dot] = "."

\* C17: isValidEmail(s) is false for a non-string or empty s, and otherwise
\* true exactly when s without its leading and trailing whitespace has the
\* shape local@domain.tld; it rejects 'user@', 'user@domain' and
\* 'user @example.com' and accepts 'user+tag@domain.co'.
C17_IsValidEmail ==
  Returned("isValidEmail") =>
    /\ Result = (IsString(Input) /\ Input # <<>> /\ HasEmailShape(Trimmed(Input)))
    /\ Input \in { <<"u", "s", "e", "r", "@">>,
                   <<"u", "s", "e", "r", "@", "d", "o", "m", "a", "i", "n">>,
                   <<"u", "s", "e", "r", " ", "@", "e", "x", "a", "m", "p",
                     "l", "e", ".", "c", "o", "m">> } => ~Result
    /\ Input = <<"u", "s", "e", "r", "+", "t", "a", "g", "@", "d", "o", "m",
                 "a", "i", "n", ".", "c", "o">> => Result

\* an address between a tab and a line feed is accepted
C17_Witness ==
  /\ Returned("isValidEmail")
  /\ Input = <<"\t", "a", "@", "b", ".", "c", "\n">>
  /\ Result

\* s is a non-empty run of decimal digits
AllDigits(s) ==
  /\ Len(s) > 0
  /\ \A i \in 1..Len(s) : s[i] \in {"0", "1", "2", "3", "4", "5", "6", "7", "8", "9"}

\* s is `prefix` followed by a non-empty run of digits
IsGidOf(prefix, s) ==
  \E digits \in 1..Len(s) :
    /\ Len(s) = Len(prefix) + digits
    /\ \A i \in 1..Len(prefix) : s[i] = prefix[i]
    /\ AllDigits(SubSeq(s, Len(prefix) + 1, Len(s)))

\* C18: isValidVariantId(s) is true exactly when s is
\* gid://shopify/ProductVariant/<digits> or a non-empty string of digits, and
\* isValidProductId(s) exactly when s is gid://shopify/Product/<digits> or a
\* non-empty string of digits; each rejects a GID of the other resource type,
\* and both reject empty and non-string input.
C18_IdValidators ==
  /\ Returned("isValidVariantId") =>
       /\ Result = (IsString(Input) /\ (IsGidOf(VariantGid, Input) \/ AllDigits(Input)))
       /\ (IsString(Input) /\ IsGidOf(ProductGid, Input)) => ~Result
       /\ (Input = <<>> \/ ~IsString(Input)) => ~Result
  /\ Returned("isValidProductId") =>
       /\ Result = (IsString(Input) /\ (IsGidOf(ProductGid, Input) \/ AllDigits(Input)))
       /\ (IsString(Input) /\ IsGidOf(VariantGid, Input)) => ~Result
       /\ (Input = <<>> \/ ~IsString(Input)) => ~Result

\* isValidProductId has turned down gid://shopify/ProductVariant/123
C18_Witness ==
  /\ Returned("isValidProductId")
  /\ Input = VariantGid \o <<"1", "2", "3">>
  /\ ~Result

\* t without its < and > characters (by halves, to keep the recursion shallow)
RECURSIVE WithoutAngles(_)
WithoutAngles(t) ==
  IF Len(t) = 0 THEN <<>>
  ELSE IF Len(t) = 1 THEN (IF t[1] \in {"<", ">"} THEN <<>> ELSE t)
  ELSE LET half == Len(t) \div 2
       IN WithoutAngles(SubSeq(t, 1, half)) \o
          WithoutAngles(SubSeq(t, half + 1, Len(t)))

\* the first n characters of t, or all of t when it has fewer
FirstChars(t, n) == [k \in 1..(IF Len(t) < n THEN Len(t) ELSE n) |-> t[k]]

\* C19: sanitizeInput(s) is the empty string for a falsy or non-string s, and
\* otherwise s trimmed, then without its < and > characters, then cut to its
\* first 500 characters; the result never holds < or > and is never longer
\* than 500 characters (600 times 'a' gives exactly 500).
C19_SanitizeInput ==
  Returned("sanitizeInput") =>
    /\ Result = IF Falsy(Input) \/ ~IsString(Input) THEN <<>>
                ELSE FirstChars(WithoutAngles(Trimmed(Input)), 500)
    /\ \A k \in 1..Len(Result) : Result[k] \notin {"<", ">"}
    /\ Len(Result) <= 500
    /\ Input = [k \in 1..600 |-> "a"] => Len(Result) = 500

\* " <" aaa...a (500 times) ">b ": the blanks and the brackets go, then b
\* falls to the length limit
C19_Witness ==
  /\ Returned("sanitizeInput")
  /\ Len(Input) = 505
  /\ Input[1] = " "
  /\ Input[2] = "<"
  /\ Input[504] = "b"
  /\ Result = [k \in 1..500 |-> "a"]

\* the positions of the '/' characters of s
Slashes(s) == {i \in 1..Len(s) : s[i] = "/"}

\* s ends in '/' followed by a non-empty run of digits
EndsInSlashDigits(s) ==
  /\ Slashes(s) # {}
  /\ LET last == CHOOSE i \in Slashes(s) : \A k \in Slashes(s) : k <= i
     IN AllDigits(SubSeq(s, last + 1, Len(s)))

\* what follows the final '/' of s
AfterFinalSlash(s) ==
  LET last == CHOOSE i \in Slashes(s) : \A k \in Slashes(s) : k <= i
  IN SubSeq(s, last + 1, Len(s))

\* C20: extractNumericId(gid) is the empty string for a falsy gid, the digits
\* after the final '/' when gid ends in '/<digits>', and gid itself
\* otherwise (so a string of digits comes back as it is); applying it to its
\* own result changes nothing.
C20_ExtractNumericId ==
  Returned("extractNumericId") =>
    /\ Result = IF Falsy(Input) THEN <<>>
                ELSE IF EndsInSlashDigits(Input) THEN AfterFinalSlash(Input)
                ELSE Input
    /\ AllDigits(Input) => Result = Input
    /\ extractNumericId(Result) = Result

\* gid://shopify/Product/123 gives 123
C20_Witness ==
  /\ Returned("extractNumericId")
  /\ Input = ProductGid \o <<"1", "2", "3">>
  /\ Result = <<"1", "2", "3">>

\* a pending call without the note of a reset
Unmarked(call) == [call EXCEPT !.stale = FALSE]

\* C21: reset() sets email to '', isJoining, isLeaving and isJoined to false
\* and error and successMessage to undefined, and cancels nothing: the calls
\* pending before it are pending after it, and when the response of a call
\* issued before the reset arrives, its updates are applied as for any other
\* call (a successful join sets isJoined to true again).
C21_ResetDoesNotCancel ==
  [][hook = "useWaitlist" =>
       /\ (event'.name = "call" /\ event'.op = "reset") =>
            /\ email' = <<>>
            /\ ~isJoining' /\ ~isLeaving' /\ ~isJoined'
            /\ error' = Undefined /\ successMessage' = Undefined
            /\ BagCardinality(inflight') = BagCardinality(inflight)
            /\ {Unmarked(c) : c \in BagToSet(inflight')} =
                 {Unmarked(c) : c \in BagToSet(inflight)}
            /\ requests' = requests
       /\ \A call \in BagToSet(inflight) :
            (call.stale /\ SettlesWithBody(call)) =>
              LET result == event'.input.body[1] IN
              IF call.ok /\ result.success
              THEN /\ isJoined' = (call.op = "join")
                   /\ successMessage' # Undefined
                   /\ callback' = OnSuccess(
                        IF call.op = "join" THEN "onJoinSuccess"
                        ELSE "onLeaveSuccess", result)
              ELSE /\ error' = Some(Coalesce(result.error, UnknownMsg))
                   /\ isJoined' = isJoined]_vars

\* the response of a join issued before reset() arrived after it: the
\* instance is joined again, with a success message
C21_Witness ==
  /\ event.name = "settle"
  /\ event.op = "join"
  /\ event.stale
  /\ event.path = "success"
  /\ isJoined
  /\ successMessage # Undefined
  /\ email = <<>>
  /\ requests = 1

\* C22: two join calls made concurrently issue two requests, and
\* when the later of them settles the state (isJoined, error, successMessage)
\* is the one its response produces: joined with a success message and no
\* error, or an error and no success message.
C22_LastResponseWins ==
  (hook = "useWaitlist" /\ event.name = "settle" /\ event.op = "join"
     /\ event.late /\ PendingOf("join") = {}) =>
    /\ requests >= 2
    /\ IF event.path = "success"
       THEN isJoined /\ successMessage # Undefined /\ error = Undefined
       ELSE error # Undefined /\ successMessage = Undefined

\* C23 as stated: in an instance whose calls do not overlap, isJoining
\* (isLeaving) is true exactly while a join (leave) call that passed the
\* validation gate is pending.
C23_FlagWhilePending ==
  /\ isJoining <=> PendingOf("join") # {}
  /\ isLeaving <=> PendingOf("leave") # {}

\* C23 (amended): in an instance whose calls do not overlap, isJoining
\* (isLeaving) is true exactly while a join (leave) call that passed the
\* validation gate is pending and reset() has not been called since it was
\* issued; reset() clears both flags while the call stays pending.
C23_FlagWhilePendingUnlessReset ==
  /\ isJoining <=> (\E call \in PendingOf("join") : ~call.stale)
  /\ isLeaving <=> (\E call \in PendingOf("leave") : ~call.stale)

\* reset() during a pending leave: the flag is down, the call still pending
C23_Witness ==
  /\ event.name = "call"
  /\ event.op = "reset"
  /\ PendingOf("leave") # {}
  /\ ~isLeaving

\* the step is one of the transport's: an answer, a parsed body or a failure
TransportStep == event'.name \in {"response", "settle"}

C25_RequestEmailWellFormed ==
  (hook = "useWaitlist" /\ event.name = "call" /\ event.sent) =>
    LET sentEmail == event.request[1] IN
    /\ sentEmail = toLowerCase(sanitizeInput(event.input.arg))
    /\ isValidEmail(sentEmail)
    /\ sentEmail = toLowerCase(sentEmail)
    /\ \A i \in 1..Len(sentEmail) : sentEmail[i] \notin {"<", ">"}
    /\ Len(sentEmail) <= MaxInputLength
    /\ sentEmail = Trimmed(sentEmail)
    /\ HasEmailShape(sentEmail)

\* C26: in every reachable state of useWaitlist, error and successMessage are
\* never both defined.
C26_ErrorXorSuccessMessage ==
  hook = "useWaitlist" => ~(error # Undefined /\ successMessage # Undefined)

\* the fetchCount call f of a previous variantId settles in this step
StaleFetchSettles(f) ==
  /\ event'.name = "settle"
  /\ event'.op = "fetchCount"
  /\ fetches' = RemoveCall(fetches, f)
  /\ f.key # cacheKey(countHook[f.inst].variantId)

\* C27: a response to a request issued for a previous variantId of the
\* instance never sets count, error or isLoading once the variantId has
\* changed, and the cache entry it writes is the one keyed by the variant it
\* was requested for.
C27_StaleResponseIgnored ==
  [][\A f \in BagToSet(fetches) :
       StaleFetchSettles(f) =>
         /\ countHook'[f.inst] = countHook[f.inst]
         /\ \A k \in DOMAIN countCache' :
              (k \notin DOMAIN countCache \/ countCache'[k] # countCache[k]) =>
                k = f.key]_vars

\* C28: in every reachable state of a useWaitlistCount instance a defined
\* error comes with count = 0: serving a fetchCount from the cache never
\* leaves the error of an earlier failed fetch beside the cached count.
C28_ErrorImpliesZeroCount ==
  \A i \in Instances :
    countHook[i].error # Undefined => countHook[i].count = 0

====
